---- MODULE Spec2Model ----
(***************************************************************************)
(* Model of the plant-metrics ingestion client (MetricsClient in           *)
(* src/plant/metrics_client.py), of the sample store it feeds              *)
(* (PlantMetricsStore in src/plant/state.py) and of the callback that      *)
(* joins them (handle_metrics_sample in src/bot.py).                       *)
(*                                                                         *)
(* run_forever is a coroutine: the code between two awaits runs without    *)
(* interruption, so every action below is one such stretch, from the       *)
(* completion of an await to the next suspension point.                    *)
(***************************************************************************)
EXTENDS Integers, Sequences, FiniteSets

VARIABLES
    pc,          \* position of run_forever (the await it is suspended at)
    stop_event,  \* MetricsClient._stop_event
    cancelled,   \* the task running run_forever has been cancelled
    outcome,     \* how run_forever ended: "running", "returned", "cancelled"
    now,         \* wall clock, in seconds
    deadline,    \* when the timeout of the pending wait_for expires
    connected,   \* a response is open (inside `async with session.get`)
    connects,    \* number of session.get calls made so far
    gap,         \* what separates the previous connection from the next
    readLog,     \* the raw lines readline has returned
    delivered,   \* the samples on_sample has been called with
    pending,     \* number of on_sample calls in progress
    cbFailed,    \* an on_sample call has raised
    samples,     \* PlantMetricsStore._samples
    result       \* what the latest query of the store returned

vars == <<pc, stop_event, cancelled, outcome, now, deadline, connected,
          connects, gap, readLog, delivered, pending, cbFailed, samples,
          result>>

---------------------------------------------------------------------------
(* Bounds of the model.                                                    *)

\* the clock stops at MaxTime
MaxTime == 2
\* at most MaxConnects calls of session.get
MaxConnects == 2
\* at most MaxLines lines are read before stop is requested
MaxLines == 2
\* PlantMetricsStore(maxlen=...): the capacity of the store
maxlen == 3

\* MetricsClient(reconnect_delay_sec=2.0)
reconnect_delay_sec == 2

---------------------------------------------------------------------------
(* Values.  A JSON value is a record [k, n]: k is what json.loads made of  *)
(* the token and n its number where it has one.                            *)
(*   absent     the key is not in the object                               *)
(*   num        a number token whose double is n                           *)
(*   hugeint    an integer token beyond the range of a double (1 followed  *)
(*              by 400 zeros): json.loads yields an int                    *)
(*   hugefloat  a float token beyond the range of a double (1e999):        *)
(*              json.loads yields inf                                      *)
(*   nanlit     the token NaN, which json.loads accepts and yields nan     *)
(*   numstr     a string that spells the number n ("12.5")                 *)
(*   nanstr     the string "nan"                                           *)
(*   str        a string that spells no number                             *)
(*   bool       true (n = 1) or false (n = 0)                              *)
(*   null       null                                                       *)
(*   list       an array or an object                                      *)
(* A Python float is [k, n] with k in fin, inf, nan.                       *)

JV(k, n) == [k |-> k, n |-> n]
Absent == JV("absent", 0)
Num(n) == JV("num", n)

Fin(n) == [k |-> "fin", n |-> n]
Inf == [k |-> "inf", n |-> 0]
NaN == [k |-> "nan", n |-> 0]

\* the JSON tokens that are numbers
IsJsonNumber(v) == v.k \in {"num", "hugeint", "hugefloat"}

\* float(x) raises: OverflowError (huge int), ValueError (str), TypeError
float_raises(v) == v.k \in {"hugeint", "str", "null", "list"}

\* float(x) where it does not raise
float(v) ==
    CASE v.k \in {"num", "numstr", "bool"} -> Fin(v.n)
      [] v.k = "hugefloat" -> Inf
      [] v.k \in {"nanlit", "nanstr"} -> NaN

(* A timestamp value of the JSON object is [k, body, suffix, wall, off]:   *)
(*   k       absent, nonstr (a number, null, ...), or str                  *)
(*   body    of a string: "ext" is the extended calendar form              *)
(*           YYYY-MM-DDTHH:MM:SS, "ordinal" the ISO-8601 ordinal form      *)
(*           YYYY-DDDTHH:MM:SS, "bad" no ISO-8601 date at all              *)
(*   suffix  "Z", "offset" (+HH:MM, off hours) or "none"                   *)
(*   wall    the wall-clock reading the string spells                      *)
(* A datetime is [aware, wall, off]; an aware one is the instant `wall`    *)
(* less `off` hours.                                                       *)

TS(k, body, suffix, wall, off) ==
    [k |-> k, body |-> body, suffix |-> suffix, wall |-> wall, off |-> off]
TsAbsent == TS("absent", "bad", "none", 0, 0)
TsNonStr == TS("nonstr", "bad", "none", 0, 0)

DateTime(aware, wall, off) == [aware |-> aware, wall |-> wall, off |-> off]

\* datetime.now(timezone.utc)
utcnow(t) == DateTime(TRUE, t, 0)

\* value[:-1] + "+00:00" when value ends with Z
ReplaceZ(s) ==
    IF s.suffix = "Z" THEN [s EXCEPT !.suffix = "offset", !.off = 0] ELSE s

\* datetime.fromisoformat raises ValueError
fromisoformat_raises(s) == s.body # "ext"

\* datetime.fromisoformat where it does not raise
fromisoformat(s) ==
    IF s.suffix = "offset"
    THEN DateTime(TRUE, s.wall, s.off)
    ELSE DateTime(FALSE, s.wall, 0)

_parse_iso8601_raises(s) == fromisoformat_raises(ReplaceZ(s))

_parse_iso8601(s) == fromisoformat(ReplaceZ(s))

(* The result of json.loads is [obj, timestamp, co2_ppm, temperature_c,    *)
(* humidity_pct]: obj says whether it is a JSON object (a dict).           *)

Data(obj, ts, c, t, h) ==
    [obj |-> obj, timestamp |-> ts, co2_ppm |-> c, temperature_c |-> t,
     humidity_pct |-> h]

Sample(ts, c, t, h) ==
    [timestamp |-> ts, co2_ppm |-> c, temperature_c |-> t, humidity_pct |-> h]

\* something in the try block of _parse_sample raises
ParseRaises(data) ==
    \/ ~data.obj
    \/ data.timestamp.k = "str" /\ _parse_iso8601_raises(data.timestamp)
    \/ data.co2_ppm.k # "absent" /\ float_raises(data.co2_ppm)
    \/ data.temperature_c.k # "absent" /\ float_raises(data.temperature_c)
    \/ data.humidity_pct.k # "absent" /\ float_raises(data.humidity_pct)

\* `None in (co2, temp, hum)`
ParseMissing(data) ==
    \/ data.co2_ppm.k = "absent"
    \/ data.temperature_c.k = "absent"
    \/ data.humidity_pct.k = "absent"

\* mutant of _parse_sample: temperature and humidity change places
_parse_sample_swapped(data, t) ==
    IF ParseRaises(data) \/ ParseMissing(data)
    THEN <<>>
    ELSE << Sample(IF data.timestamp.k = "str"
                   THEN _parse_iso8601(data.timestamp)
                   ELSE utcnow(t),
                   float(data.co2_ppm),
                   float(data.humidity_pct),
                   float(data.temperature_c)) >>

\* _parse_sample(data) called at time t: <<>> is None, <<s>> the sample s
_parse_sample(data, t) ==
    IF ParseRaises(data) \/ ParseMissing(data)
    THEN <<>>
    ELSE << Sample(IF data.timestamp.k = "str"
                   THEN _parse_iso8601(data.timestamp)
                   ELSE utcnow(t),
                   float(data.co2_ppm),
                   float(data.temperature_c),
                   float(data.humidity_pct)) >>

---------------------------------------------------------------------------
(* Raw lines.  What readline returns is [k, data]:                         *)
(*   undecodable  bytes that are not UTF-8                                 *)
(*   blank        only whitespace                                          *)
(*   text         text that is not JSON                                    *)
(*   json         JSON text, data being what json.loads makes of it        *)
(* (b"", the end of the stream, is ReadEof below.)                         *)

NoData == Data(FALSE, TsAbsent, Absent, Absent, Absent)
Line(k, data) == [k |-> k, data |-> data]

\* the lines the modelled server sends
StreamLines ==
    { Line("undecodable", NoData),
      Line("blank", NoData),
      Line("text", NoData),
      \* [1, 2]
      Line("json", NoData),
      \* {"timestamp": "..01Z", "co2_ppm": 800, "temperature_c": 20}
      Line("json", Data(TRUE, TS("str", "ext", "Z", 1, 0),
                        Num(800), Num(20), Absent)),
      \* {"timestamp": "..01Z", "co2_ppm": 800, "temperature_c": 20,
      \*  "humidity_pct": 50}
      Line("json", Data(TRUE, TS("str", "ext", "Z", 1, 0),
                        Num(800), Num(20), Num(50))),
      \* {"co2_ppm": 780, "temperature_c": 32, "humidity_pct": 20}
      Line("json", Data(TRUE, TsAbsent, Num(780), Num(32), Num(20))),
      \* {"timestamp": "..02+00:00", "co2_ppm": "nan", "temperature_c": 20,
      \*  "humidity_pct": 50}
      Line("json", Data(TRUE, TS("str", "ext", "offset", 2, 0),
                        JV("nanstr", 0), Num(20), Num(50))) }

\* raw_line.decode("utf-8") raises UnicodeDecodeError
decode_raises(l) == l.k = "undecodable"

\* what lines 62-72 make of a decodable line read at time t: <<>> when the
\* line is skipped (blank, JSONDecodeError, _parse_sample is None)
LineSample(l, t) ==
    IF l.k = "json" THEN _parse_sample(l.data, t) ELSE <<>>

---------------------------------------------------------------------------
(* PlantMetricsStore.                                                      *)

\* mutant of append: a full deque turns the new sample away
append_keep_oldest(q, s) ==
    IF Len(q) < maxlen THEN Append(q, s) ELSE q

\* deque(maxlen=maxlen).append
append(q, s) ==
    IF maxlen = 0 THEN <<>>
    ELSE IF Len(q) < maxlen THEN Append(q, s)
    ELSE Append(Tail(q), s)

\* PlantMetricsStore.update
update(q, s) == append(q, s)

\* handle_metrics_sample: what the callback does to the store on entry
handle_metrics_sample(s) == samples' = update(samples, s)

\* PlantMetricsStore(ambient_co2_baseline_ppm=600.0)
ambient_co2_baseline_ppm == 600

\* mutant of latest: the oldest stored sample is returned
latest_oldest(q) == IF q = <<>> THEN <<>> ELSE << q[1] >>

\* PlantMetricsStore.latest: <<>> is None
latest(q) == IF q = <<>> THEN <<>> ELSE << q[Len(q)] >>

(* Float arithmetic as the queries use it.  The values of a sample are     *)
(* Fin(n), Inf (+inf) or NaN; a difference can also be -inf.  A quotient   *)
(* is kept exact, as [k, num, den] with den > 0: the number num / den      *)
(* when k is fin.  Every comparison with nan is False.                     *)

NegInf == [k |-> "ninf", n |-> 0]

\* a > n, a < n, a >= n, a <= n for a float a and a number n
gt(a, n) == a.k = "inf" \/ (a.k = "fin" /\ a.n > n)
lt(a, n) == a.k = "ninf" \/ (a.k = "fin" /\ a.n < n)
ge(a, n) == a.k = "inf" \/ (a.k = "fin" /\ a.n >= n)
le(a, n) == a.k = "ninf" \/ (a.k = "fin" /\ a.n <= n)

\* a + b and a - b for values of samples (and sums of them)
fadd(a, b) ==
    CASE a.k = "nan" \/ b.k = "nan" -> NaN
      [] a.k = "inf" \/ b.k = "inf" -> Inf
      [] OTHER -> Fin(a.n + b.n)

fsub(a, b) ==
    CASE a.k = "nan" \/ b.k = "nan" -> NaN
      [] a.k = "inf" /\ b.k = "inf" -> NaN
      [] a.k = "inf" -> Inf
      [] b.k = "inf" -> NegInf
      [] OTHER -> Fin(a.n - b.n)

\* a * num / den for a float a and numbers num, den > 0
Quot(a, num, den) ==
    IF a.k = "fin"
    THEN [k |-> "fin", num |-> a.n * num, den |-> den]
    ELSE [k |-> a.k, num |-> 0, den |-> 1]

\* r + n for a quotient r and a number n
qadd(r, n) ==
    IF r.k = "fin" THEN [r EXCEPT !.num = r.num + n * r.den] ELSE r

\* r >= n and r < n for a quotient r and a number n
qge(r, n) == r.k = "inf" \/ (r.k = "fin" /\ r.num >= n * r.den)
qlt(r, n) == r.k = "ninf" \/ (r.k = "fin" /\ r.num < n * r.den)

\* round(r, ndigits), scale being 10 ** ndigits: the nearest multiple of
\* 1 / scale, a tie going to the even one; inf and nan stay what they are
round(r, scale) ==
    IF r.k # "fin" THEN r
    ELSE LET x == r.num * scale
             q == x \div r.den
             m == x % r.den
         IN [k |-> "fin",
             num |-> IF 2 * m > r.den \/ (2 * m = r.den /\ q % 2 = 1)
                     THEN q + 1 ELSE q,
             den |-> scale]

\* sum(values), from the left
RECURSIVE sum(_)
sum(values) ==
    IF values = <<>> THEN Fin(0)
    ELSE fadd(sum(SubSeq(values, 1, Len(values) - 1)), values[Len(values)])

\* PlantMetricsStore._mean: <<>> is None
_mean(values) ==
    IF values = <<>> THEN <<>>
    ELSE << Quot(sum(values), 1, Len(values)) >>

(* Datetimes.  The instant of an aware datetime is its wall-clock reading  *)
(* less its offset (off hours), in seconds; comparing or subtracting a     *)
(* naive and an aware datetime raises TypeError.                           *)

instant(d) == d.wall - d.off * 3600

\* ts.astimezone().hour: the local clock reads 21:50 at instant 0
local_hour(d) == ((instant(d) + 78600) \div 3600) % 24

\* _is_night of summarize
_is_night(d) == local_hour(d) >= 22 \/ local_hour(d) < 6

\* line 48, `s.timestamp >= cutoff`, raises TypeError: the cutoff is aware
window_raises(q) == \E i \in DOMAIN q : ~q[i].timestamp.aware

\* mutant of window: samples that are exactly `since` old are left out
window_strict(q, since, t) ==
    LET kept(s) == instant(s.timestamp) > t - since
    IN IF q = <<>> THEN <<>> ELSE SelectSeq(q, kept)

\* PlantMetricsStore.window(since) called at time t, where it does not raise
window(q, since, t) ==
    LET kept(s) == instant(s.timestamp) >= t - since
    IN IF q = <<>> THEN <<>> ELSE SelectSeq(q, kept)

\* mutant of _trend_per_min: the slope is taken over the last two samples
_trend_over_last_step(series, seconds) ==
    IF Len(series) < 2 \/ Len(series) # Len(seconds) THEN <<>>
    ELSE LET dy == fsub(series[Len(series)], series[Len(series) - 1])
             dt == seconds[Len(seconds)] - seconds[Len(seconds) - 1]
         IN IF dt <= 0 THEN <<>> ELSE << Quot(dy, 60, dt) >>

\* mutant of _trend_per_min: the slope is taken per second
_trend_per_sec(series, seconds) ==
    IF Len(series) < 2 \/ Len(series) # Len(seconds) THEN <<>>
    ELSE LET dy == fsub(series[Len(series)], series[1])
             dt == seconds[Len(seconds)] - seconds[1]
         IN IF dt <= 0 THEN <<>> ELSE << Quot(dy, 1, dt) >>

\* PlantMetricsStore._trend_per_min: <<>> is None; dt_min is dt / 60
_trend_per_min(series, seconds) ==
    IF Len(series) < 2 \/ Len(series) # Len(seconds) THEN <<>>
    ELSE LET dy == fsub(series[Len(series)], series[1])
             dt == seconds[Len(seconds)] - seconds[1]
         IN IF dt <= 0 THEN <<>> ELSE << Quot(dy, 60, dt) >>

(* _calc_vpd_kpa.  exp is not evaluated: the vapour pressure deficit is    *)
(* kept as the Tetens expression in its two arguments.  For a whole        *)
(* number of degrees from -243 to -238 the argument of math.exp is above   *)
(* 709.78 and it raises OverflowError.                                     *)

_calc_vpd_kpa_raises(temp_c) ==
    temp_c.k = "fin" /\ temp_c.n >= -243 /\ temp_c.n <= -238

_calc_vpd_kpa(temp_c, rh_pct) ==
    [tetens |-> "vpd", temp_c |-> temp_c, rh_pct |-> rh_pct, ndigits |-> -1]

(* The classifications of summarize, lines 96-124, of a latest sample      *)
(* with temperature t, humidity h and CO2 c.                               *)

\* mutant of temperature_status: 28 to 30 degrees count as comfy
temperature_status_wide(t) ==
    IF gt(t, 30) THEN "hot"
    ELSE IF ge(t, 18) /\ le(t, 30) THEN "comfy"
    ELSE "cool"

temperature_status(t) ==
    IF gt(t, 30) THEN "hot"
    ELSE IF ge(t, 18) /\ le(t, 28) THEN "comfy"
    ELSE "cool"

humidity_status(h) ==
    IF lt(h, 25) THEN "very_dry"
    ELSE IF lt(h, 35) THEN "dry"
    ELSE IF gt(h, 80) THEN "humid"
    ELSE "ideal"

co2_status(c) ==
    IF gt(c, 1500) THEN "very_stale"
    ELSE IF gt(c, 1200) THEN "stale"
    ELSE IF lt(c, 450) THEN "fresh"
    ELSE "normal"

\* line 120
stress_risk(t, h) == lt(h, 35) /\ ge(t, 28)

\* lines 121-124: the comparison of two floats cannot raise
co2_rel_low(c) == lt(c, ambient_co2_baseline_ppm - 50)

(* The phrases, named by their opening words.                              *)

SleptGreat == "I slept great."
RestedFine == "I rested fine."
SleptWell == "I slept well."
FeelStressed == "Honestly, temperatures are increasing and I feel like I need water."
FeelWarm == "It's quite warm"
FeelDry == "A bit dry"
FeelComfortable == "I feel comfortable right now"
LowCo2 == "My sensors indicate low CO2 concentrations around my leaves."
DroppingCo2 == "CO2 is dropping around me"
DoingMyBest == "I'm doing my best."

\* the values of one field over a list of samples
Column(win, field) == [i \in 1..Len(win) |-> win[i][field]]

\* lines 126-146: the sleep assessment from the window of the last 8 hours
sleep_assessment(last8) ==
    LET night(s) == _is_night(s.timestamp)
        night_co2 == Column(SelectSeq(last8, night), "co2_ppm")
        mean == _mean(night_co2)
        \* `self._mean(night_co2) or 0.0`
        avg_night_co2 == IF mean[1].k = "fin" /\ mean[1].num = 0
                         THEN Quot(Fin(0), 1, 1) ELSE mean[1]
    IN IF night_co2 # <<>>
       THEN IF qge(avg_night_co2, ambient_co2_baseline_ppm - 25)
            THEN SleptGreat ELSE RestedFine
       ELSE SleptWell

\* mutant of current_feel: heat is looked at before stress
current_feel_hot_first(stress, temperature, humidity) ==
    IF temperature = "hot" THEN FeelWarm
    ELSE IF stress THEN FeelStressed
    ELSE IF humidity \in {"dry", "very_dry"} THEN FeelDry
    ELSE FeelComfortable

\* lines 148-158
current_feel(stress, temperature, humidity) ==
    IF stress THEN FeelStressed
    ELSE IF temperature = "hot" THEN FeelWarm
    ELSE IF humidity \in {"dry", "very_dry"} THEN FeelDry
    ELSE FeelComfortable

\* mutant of productivity: the trend is looked at before the level
productivity_trend_first(rel_low, co2_trend) ==
    IF co2_trend # <<>> /\ qlt(co2_trend[1], -2) THEN DroppingCo2
    ELSE IF rel_low = <<TRUE>> THEN LowCo2
    ELSE DoingMyBest

\* lines 160-172: rel_low and co2_trend are Optional
productivity(rel_low, co2_trend) ==
    IF rel_low = <<TRUE>> THEN LowCo2
    ELSE IF co2_trend # <<>> /\ qlt(co2_trend[1], -2) THEN DroppingCo2
    ELSE DoingMyBest

\* mutant of classify: without a sample the air counts as ideal
classify_ideal(l) ==
    IF l = <<>>
    THEN [temperature_status |-> "comfy", humidity_status |-> "ideal",
          co2_status |-> "normal", stress_risk |-> FALSE,
          co2_relative_to_ambient_low |-> <<>>]
    ELSE [temperature_status |-> temperature_status(l[1].temperature_c),
          humidity_status |-> humidity_status(l[1].humidity_pct),
          co2_status |-> co2_status(l[1].co2_ppm),
          stress_risk |-> stress_risk(l[1].temperature_c, l[1].humidity_pct),
          co2_relative_to_ambient_low |-> << co2_rel_low(l[1].co2_ppm) >>]

\* lines 89-124 of summarize: the status heuristics of the Optional latest
classify(l) ==
    IF l = <<>>
    THEN [temperature_status |-> "unknown", humidity_status |-> "unknown",
          co2_status |-> "unknown", stress_risk |-> FALSE,
          co2_relative_to_ambient_low |-> <<>>]
    ELSE [temperature_status |-> temperature_status(l[1].temperature_c),
          humidity_status |-> humidity_status(l[1].humidity_pct),
          co2_status |-> co2_status(l[1].co2_ppm),
          stress_risk |-> stress_risk(l[1].temperature_c, l[1].humidity_pct),
          co2_relative_to_ambient_low |-> << co2_rel_low(l[1].co2_ppm) >>]

\* summarize called at time t raises: TypeError at line 74 (the latest
\* timestamp is naive) or in window at line 77, OverflowError at line 87
summarize_raises(q, t) ==
    \/ q # <<>> /\ ~q[Len(q)].timestamp.aware
    \/ window_raises(q)
    \/ q # <<>> /\ _calc_vpd_kpa_raises(q[Len(q)].temperature_c)

\* PlantMetricsStore.summarize called at time t, where it does not raise
summarize(q, t) ==
    LET l == latest(q)
        win == window(q, 600, t)
        times == [i \in 1..Len(win) |-> instant(win[i].timestamp)]
        temps == Column(win, "temperature_c")
        hums == Column(win, "humidity_pct")
        co2s == Column(win, "co2_ppm")
        co2_trend == IF co2s # <<>> THEN _trend_per_min(co2s, times) ELSE <<>>
        status == classify(l)
    IN [latest |-> l,
        seconds_since_update |->
            IF l # <<>> THEN << t - instant(l[1].timestamp) >> ELSE <<>>,
        vpd_kpa |->
            IF l # <<>>
            THEN << _calc_vpd_kpa(l[1].temperature_c, l[1].humidity_pct) >>
            ELSE <<>>,
        temperature_status |-> status.temperature_status,
        humidity_status |-> status.humidity_status,
        co2_status |-> status.co2_status,
        stress_risk |-> status.stress_risk,
        co2_relative_to_ambient_low |-> status.co2_relative_to_ambient_low,
        co2_trend_ppm_per_min |-> co2_trend,
        humidity_trend_pct_per_min |->
            IF hums # <<>> THEN _trend_per_min(hums, times) ELSE <<>>,
        temperature_trend_c_per_min |->
            IF temps # <<>> THEN _trend_per_min(temps, times) ELSE <<>>,
        sleep_assessment_text |-> sleep_assessment(window(q, 28800, t)),
        current_feel_text |->
            current_feel(status.stress_risk, status.temperature_status,
                         status.humidity_status),
        productivity_assessment_text |->
            productivity(status.co2_relative_to_ambient_low, co2_trend)]

\* mutant of temp_out: every units value but "metric" is converted
temp_out_unless_metric(temp, units) ==
    IF units # "metric"
    THEN [key |-> "temperature_f", value |-> qadd(Quot(temp, 9, 5), 32)]
    ELSE [key |-> "temperature_c", value |-> Quot(temp, 1, 1)]

\* lines 201-206 of to_result_dict: temp_key and temp_out
temp_out(temp, units) ==
    IF units = "imperial"
    THEN [key |-> "temperature_f", value |-> qadd(Quot(temp, 9, 5), 32)]
    ELSE [key |-> "temperature_c", value |-> Quot(temp, 1, 1)]

\* the "latest" dict of to_result_dict; isoformat() is kept as the datetime
\* it spells
latest_dict(s, out, seconds_since_update) ==
    IF out.key = "temperature_f"
    THEN [temperature_f |-> round(out.value, 100),
          humidity_pct |-> round(Quot(s.humidity_pct, 1, 1), 100),
          co2_ppm |-> round(Quot(s.co2_ppm, 1, 1), 10),
          timestamp |-> s.timestamp,
          seconds_since_update |-> seconds_since_update]
    ELSE [temperature_c |-> round(out.value, 100),
          humidity_pct |-> round(Quot(s.humidity_pct, 1, 1), 100),
          co2_ppm |-> round(Quot(s.co2_ppm, 1, 1), 10),
          timestamp |-> s.timestamp,
          seconds_since_update |-> seconds_since_update]

\* PlantMetricsStore.to_result_dict(units=units) called at time t, where
\* summarize does not raise; None is <<>>
to_result_dict(q, t, units) ==
    LET summary == summarize(q, t)
    IN IF summary.latest = <<>>
       THEN [available |-> FALSE,
             message |-> "No sensor data available yet."]
       ELSE [available |-> TRUE,
             latest |-> latest_dict(summary.latest[1],
                                    temp_out(summary.latest[1].temperature_c,
                                             units),
                                    summary.seconds_since_update[1]),
             derived |->
                 [vpd_kpa |-> [summary.vpd_kpa[1] EXCEPT !.ndigits = 3],
                  temperature_status |-> summary.temperature_status,
                  humidity_status |-> summary.humidity_status,
                  co2_status |-> summary.co2_status,
                  stress_risk |-> summary.stress_risk,
                  co2_relative_to_ambient_low |->
                      summary.co2_relative_to_ambient_low,
                  trends |->
                      [co2_trend_ppm_per_min |->
                           summary.co2_trend_ppm_per_min,
                       humidity_trend_pct_per_min |->
                           summary.humidity_trend_pct_per_min,
                       temperature_trend_c_per_min |->
                           summary.temperature_trend_c_per_min]],
             phrases |->
                 [sleep |-> summary.sleep_assessment_text,
                  current_feel |-> summary.current_feel_text,
                  productivity |-> summary.productivity_assessment_text]]

---------------------------------------------------------------------------
(* MetricsClient.run_forever.                                              *)
(*                                                                         *)
(* gap is [prev, at, waits, delay, elapsed]: how the previous connection   *)
(* ended (prev) and when (at), the backoff waits that ran their full       *)
(* delay since (waits), the delay of the latest wait, and, once the next   *)
(* session.get is under way, the time that had passed between the two      *)
(* (elapsed).                                                              *)

\* no query of the store has returned since it last changed
NoResult == [op |-> "none"]

NoGap == [prev |-> "none", at |-> 0, waits |-> 0, delay |-> 0, elapsed |-> 0]

\* the connection attempt ends now, for the reason `why`
Ended(why) == [NoGap EXCEPT !.prev = why, !.at = now]

WaitPcs == {"wait_status", "wait_err"}
SuspendedPcs == {"connecting", "reading", "callback"} \cup WaitPcs

Init ==
    /\ pc = "idle"
    /\ stop_event = FALSE
    /\ cancelled = FALSE
    /\ outcome = "running"
    /\ now = 0
    /\ deadline = 0
    /\ connected = FALSE
    /\ connects = 0
    /\ gap = NoGap
    /\ readLog = <<>>
    /\ delivered = <<>>
    /\ pending = 0
    /\ cbFailed = FALSE
    /\ samples = <<>>
    /\ result = NoResult

\* line 48, `while not self._stop_event.is_set()`, reached with no response
\* open and g having happened since the previous connection: the loop ends
\* or session.get is called
OuterLoop(g) ==
    /\ connected' = FALSE
    /\ deadline' = 0
    /\ IF stop_event
       THEN /\ pc' = "done"
            /\ outcome' = "returned"
            /\ gap' = NoGap
            /\ UNCHANGED connects
       ELSE /\ connects < MaxConnects
            /\ pc' = "connecting"
            /\ connects' = connects + 1
            /\ gap' = [g EXCEPT !.at = 0, !.elapsed = now - g.at]
            /\ UNCHANGED outcome

\* mutant of InnerLoop: the inner loop is `while True`
InnerLoopUnchecked ==
    /\ pc' = "reading"
    /\ connected' = TRUE
    /\ gap' = NoGap
    /\ UNCHANGED <<outcome, deadline, connects>>

\* line 58, the inner `while not self._stop_event.is_set()`: readline is
\* awaited, or the response is left and line 48 reached
InnerLoop ==
    IF stop_event
    THEN OuterLoop(Ended("stop"))
    ELSE /\ pc' = "reading"
         /\ connected' = TRUE
         /\ gap' = NoGap
         /\ UNCHANGED <<outcome, deadline, connects>>

\* mutant of BackoffDeadline: the delay grows with the attempts made
BackoffDeadlineGrowing == now + reconnect_delay_sec * connects

\* when the timeout given to asyncio.wait_for expires
BackoffDeadline == now + reconnect_delay_sec

\* _wait_with_cancel called at position w after g: with the event already
\* set the wait is over at once, else it suspends
_wait_with_cancel(w, g) ==
    IF stop_event
    THEN OuterLoop(g)
    ELSE /\ pc' = w
         /\ deadline' = BackoffDeadline
         /\ gap' = [g EXCEPT !.delay = BackoffDeadline - now]
         /\ connected' = (w = "wait_status")
         /\ UNCHANGED <<outcome, connects>>

\* asyncio.create_task(metrics_client.run_forever()) gets to run
Start ==
    /\ pc = "idle"
    /\ OuterLoop(NoGap)
    /\ UNCHANGED <<stop_event, cancelled, now, readLog, delivered, pending,
                   cbFailed, samples, result>>

\* session.get answers 200
Connect200 ==
    /\ pc = "connecting"
    /\ InnerLoop
    /\ UNCHANGED <<stop_event, cancelled, now, readLog, delivered, pending,
                   cbFailed, samples, result>>

\* session.get answers another status: lines 51-56
ConnectNon200 ==
    /\ pc = "connecting"
    /\ _wait_with_cancel("wait_status", Ended("status"))
    /\ UNCHANGED <<stop_event, cancelled, now, readLog, delivered, pending,
                   cbFailed, samples, result>>

\* session.get raises: lines 79-81
ConnectError ==
    /\ pc = "connecting"
    /\ _wait_with_cancel("wait_err", Ended("fault"))
    /\ UNCHANGED <<stop_event, cancelled, now, readLog, delivered, pending,
                   cbFailed, samples, result>>

\* the timeout of wait_for expires: TimeoutError, lines 86-87
WaitTimeout ==
    /\ pc \in WaitPcs
    /\ now >= deadline
    /\ OuterLoop([gap EXCEPT !.waits = @ + 1])
    /\ UNCHANGED <<stop_event, cancelled, now, readLog, delivered, pending,
                   cbFailed, samples, result>>

\* mutant of WaitStopped: the wait is a plain sleep, which the event does
\* not end
WaitSleeps ==
    /\ pc \in WaitPcs
    /\ stop_event
    /\ now >= deadline
    /\ OuterLoop(gap)
    /\ UNCHANGED <<stop_event, cancelled, now, readLog, delivered, pending,
                   cbFailed, samples, result>>

\* self._stop_event.wait() returns during the wait
WaitStopped ==
    /\ pc \in WaitPcs
    /\ stop_event
    /\ OuterLoop(gap)
    /\ UNCHANGED <<stop_event, cancelled, now, readLog, delivered, pending,
                   cbFailed, samples, result>>

\* readline may return one more line
CanRead == Len(readLog) < MaxLines

\* mutant of ReadEof: the end of the stream ends run_forever
ReadEofReturns ==
    /\ pc = "reading"
    /\ pc' = "done"
    /\ outcome' = "returned"
    /\ connected' = FALSE
    /\ gap' = NoGap
    /\ UNCHANGED <<stop_event, cancelled, now, deadline, connects, readLog,
                   delivered, pending, cbFailed, samples, result>>

\* readline returns b"": line 61 breaks, the response is left and line 48
\* follows
ReadEof ==
    /\ pc = "reading"
    /\ OuterLoop(Ended("eof"))
    /\ UNCHANGED <<stop_event, cancelled, now, readLog, delivered, pending,
                   cbFailed, samples, result>>

\* readline raises (the connection is reset): lines 79-81
ReadFault ==
    /\ pc = "reading"
    /\ _wait_with_cancel("wait_err", Ended("fault"))
    /\ UNCHANGED <<stop_event, cancelled, now, readLog, delivered, pending,
                   cbFailed, samples, result>>

\* readline returns bytes that line 62 cannot decode: UnicodeDecodeError is
\* raised outside the try of line 65 and lines 79-81 handle it
ReadUndecodable ==
    /\ pc = "reading"
    /\ CanRead
    /\ \E l \in StreamLines :
          /\ decode_raises(l)
          /\ readLog' = Append(readLog, l)
    /\ _wait_with_cancel("wait_err", Ended("fault"))
    /\ UNCHANGED <<stop_event, cancelled, now, delivered, pending, cbFailed,
                   samples, result>>

\* readline returns a line that lines 63-72 skip with `continue`
ReadSkipped ==
    /\ pc = "reading"
    /\ CanRead
    /\ \E l \in StreamLines :
          /\ ~decode_raises(l)
          /\ LineSample(l, now) = <<>>
          /\ readLog' = Append(readLog, l)
    /\ InnerLoop
    /\ UNCHANGED <<stop_event, cancelled, now, delivered, pending, cbFailed,
                   samples, result>>

\* mutant of AwaitCallback: the callback is started and not awaited
SpawnCallback == InnerLoop

\* line 74, `await self._on_sample(sample)`: run_forever is suspended until
\* the callback is over
AwaitCallback ==
    /\ pc' = "callback"
    /\ UNCHANGED <<outcome, deadline, connected, connects, gap>>

\* readline returns a line that yields a sample: the callback is entered
ReadSample ==
    /\ pc = "reading"
    /\ CanRead
    /\ \E l \in StreamLines :
          /\ ~decode_raises(l)
          /\ LineSample(l, now) # <<>>
          /\ readLog' = Append(readLog, l)
          /\ delivered' = Append(delivered, LineSample(l, now)[1])
          /\ handle_metrics_sample(LineSample(l, now)[1])
    /\ pending' = pending + 1
    /\ AwaitCallback
    /\ UNCHANGED <<stop_event, cancelled, now, cbFailed, result>>

\* a callback in progress is over, having raised or not; run_forever, if
\* it awaits it, goes on at line 58
CallbackEnds(raised) ==
    /\ pending > 0
    /\ pending' = pending - 1
    /\ cbFailed' = (cbFailed \/ raised)
    /\ IF pc = "callback"
       THEN InnerLoop
       ELSE UNCHANGED <<pc, outcome, deadline, connected, connects, gap>>
    /\ UNCHANGED <<stop_event, cancelled, now, readLog, delivered, samples,
                   result>>

\* the callback returns
CallbackReturn == CallbackEnds(FALSE)

\* mutant of CallbackRaise: the exception is not caught at line 75 and
\* reaches the handler of lines 79-81
CallbackRaisePropagates ==
    /\ pc = "callback"
    /\ pending > 0
    /\ pending' = pending - 1
    /\ cbFailed' = TRUE
    /\ _wait_with_cancel("wait_err", Ended("fault"))
    /\ UNCHANGED <<stop_event, cancelled, now, readLog, delivered, samples,
                   result>>

\* the callback raises an Exception: lines 75-76 log it
CallbackRaise == CallbackEnds(TRUE)

\* MetricsClient.stop
Stop ==
    /\ ~stop_event
    /\ stop_event' = TRUE
    /\ UNCHANGED <<pc, cancelled, outcome, now, deadline, connected, connects,
                   gap, readLog, delivered, pending, cbFailed, samples, result>>

\* where the CancelledError thrown into run_forever at position p ends up:
\* inside the try of line 49 the handler of lines 77-78 breaks out of the
\* loop and run_forever returns; in the handler of lines 79-81, and before
\* the coroutine has started, nothing catches it
CancelOutcome(p) ==
    IF p \in {"idle", "wait_err"} THEN "cancelled" ELSE "returned"

\* the task running run_forever is cancelled while it is suspended (the
\* callback it awaits is cancelled with it)
Cancel ==
    /\ pc \in SuspendedPcs \cup {"idle"}
    /\ cancelled' = TRUE
    /\ pc' = "done"
    /\ outcome' = CancelOutcome(pc)
    /\ connected' = FALSE
    /\ deadline' = 0
    /\ gap' = NoGap
    /\ pending' = IF pc = "callback" THEN pending - 1 ELSE pending
    /\ UNCHANGED <<stop_event, now, connects, readLog, delivered, cbFailed,
                   samples, result>>

\* time passes
Tick ==
    /\ now < MaxTime
    /\ now' = now + 1
    /\ UNCHANGED <<pc, stop_event, cancelled, outcome, deadline, connected,
                   connects, gap, readLog, delivered, pending, cbFailed,
                   samples, result>>

Next ==
    \/ Start
    \/ Connect200
    \/ ConnectNon200
    \/ ConnectError
    \/ WaitTimeout
    \/ WaitStopped
    \/ ReadEof
    \/ ReadFault
    \/ ReadUndecodable
    \/ ReadSkipped
    \/ ReadSample
    \/ CallbackReturn
    \/ CallbackRaise
    \/ Stop
    \/ Cancel
    \/ Tick

Spec == Init /\ [][Next]_vars

\* what asyncio schedules and what the claim about stop assumes: the task
\* gets to run, a connection attempt, a read and a callback come to an end,
\* and a set event wakes its waiter
Fairness ==
    /\ WF_vars(Start)
    /\ WF_vars(Connect200 \/ ConnectNon200 \/ ConnectError)
    /\ WF_vars(ReadEof \/ ReadFault \/ ReadUndecodable \/ ReadSkipped
               \/ ReadSample)
    /\ WF_vars(CallbackReturn \/ CallbackRaise)
    /\ WF_vars(WaitStopped)

FairSpec == Spec /\ Fairness

---------------------------------------------------------------------------
(* _parse_sample on its own: one record drawn from ParseData is parsed.    *)

\* the values a required field takes, n being its number
FieldValues(n) ==
    { Absent, Num(n), JV("hugeint", 0), JV("hugefloat", 0), JV("nanlit", 0),
      JV("numstr", n), JV("nanstr", 0), JV("str", 0), JV("bool", 1),
      JV("null", 0), JV("list", 0) }

TimestampValues ==
    {TsAbsent, TsNonStr}
    \cup { TS("str", b, x[1], 1, x[2]) :
             b \in {"ext", "ordinal", "bad"},
             x \in {<<"Z", 0>>, <<"offset", 0>>, <<"offset", 1>>,
                    <<"none", 0>>} }

ParseData ==
    {NoData}
    \cup { Data(TRUE, ts, c, t, h) :
             ts \in TimestampValues, c \in FieldValues(800),
             t \in FieldValues(20), h \in FieldValues(50) }

ParseInit ==
    /\ pc = "parse"
    /\ now \in 0..MaxTime
    /\ readLog \in { <<Line("json", d)>> : d \in ParseData }
    /\ stop_event = FALSE
    /\ cancelled = FALSE
    /\ outcome = "running"
    /\ deadline = 0
    /\ connected = FALSE
    /\ connects = 0
    /\ gap = NoGap
    /\ delivered = <<>>
    /\ pending = 0
    /\ cbFailed = FALSE
    /\ samples = <<>>
    /\ result = NoResult

\* sample = self._parse_sample(data), line 70
ParseStep ==
    /\ pc = "parse"
    /\ pc' = "parsed"
    /\ delivered' = LineSample(readLog[1], now)
    /\ UNCHANGED <<stop_event, cancelled, outcome, now, deadline, connected,
                   connects, gap, readLog, pending, cbFailed, samples, result>>

ParseNext == ParseStep

ParseSpec == ParseInit /\ [][ParseNext]_vars

---------------------------------------------------------------------------
(* Claims about run_forever, checked under Spec (C5 under FairSpec).       *)

(* C1: a cancellation of the task running run_forever, at whichever       *)
(* suspension point it arrives, ends run_forever by raising the           *)
(* cancellation, not by a normal return.                                   *)
C1_CancellationPropagates ==
    cancelled => (pc = "done" /\ outcome = "cancelled")

(* C2: between an end-of-stream of a 200 response and the next            *)
(* session.get there is a backoff wait of reconnect_delay_sec.            *)
C2_BackoffAfterEof ==
    (pc = "connecting" /\ gap.prev = "eof")
        => (gap.waits = 1 /\ gap.elapsed >= reconnect_delay_sec)

(* C3: after a failed connection attempt (a non-200 status, an exception  *)
(* while connecting or reading) run_forever goes on, and the next         *)
(* session.get comes after exactly one backoff wait, of the fixed         *)
(* reconnect_delay_sec whatever the number of earlier attempts.           *)
C3_FixedBackoffAfterFailure ==
    /\ pc \in WaitPcs =>
          /\ gap.prev \in {"status", "fault"}
          /\ gap.delay = reconnect_delay_sec
          /\ deadline = gap.at + reconnect_delay_sec
          /\ outcome = "running"
    /\ (pc = "connecting" /\ gap.prev \in {"status", "fault"}) =>
          /\ gap.waits = 1
          /\ gap.delay = reconnect_delay_sec
          /\ gap.elapsed >= reconnect_delay_sec

\* a second session.get is under way, one full wait after a fault
C3_Witness ==
    /\ pc = "connecting"
    /\ connects = 2
    /\ gap.prev = "fault"
    /\ gap.waits = 1

(* C4: run_forever has ended only if stop() was called or the task was    *)
(* cancelled: no failed connection, end-of-stream, malformed line or      *)
(* callback exception ends it.                                             *)
C4_EndsOnlyWhenStoppedOrCancelled ==
    (pc = "done" \/ outcome # "running") => (stop_event \/ cancelled)

\* still reading, on a second connection, after a callback has raised
C4_Witness ==
    /\ pc = "reading"
    /\ connects = 2
    /\ cbFailed
    /\ ~stop_event
    /\ ~cancelled

(* C5: once stop() has been called run_forever terminates, provided the   *)
(* connection attempt, read or callback in flight comes to an end; and    *)
(* every step it takes with stop set ends it, but for the delivery of the *)
(* line whose read was in flight: a wait ends at once, a read is the last *)
(* one.                                                                    *)
C5_StopTerminates ==
    /\ stop_event ~> (pc = "done")
    /\ [][(stop_event /\ pc' # pc)
             => (pc' = "done" \/ (pc = "reading" /\ pc' = "callback"))]_vars

\* run_forever has returned after a stop that found it at work
C5_Witness ==
    /\ stop_event
    /\ ~cancelled
    /\ pc = "done"
    /\ outcome = "returned"
    /\ connects > 0

\* the line the step has just read yields no sample
ReadsUnusableLine ==
    /\ pc = "reading"
    /\ Len(readLog') = Len(readLog) + 1
    /\ LET l == readLog'[Len(readLog')]
       IN  decode_raises(l) \/ LineSample(l, now) = <<>>

(* C6: a line that yields no sample (blank, undecodable, not JSON, not an *)
(* object, a field missing or not numeric) is skipped: with no stop       *)
(* requested, the next line is read from the same open response, with no  *)
(* reconnect and no backoff.                                               *)
C6_UnusableLineKeepsConnection ==
    [][(ReadsUnusableLine /\ ~stop_event)
          => (pc' = "reading" /\ connected' /\ connects' = connects
              /\ deadline' = 0)]_vars

(* C7: an exception raised by the on_sample callback is caught: with no   *)
(* stop requested the response stays open and the next line is read from  *)
(* it.                                                                     *)
C7_CallbackFaultKeepsStream ==
    [][(pc = "callback" /\ ~stop_event /\ CallbackRaise)
          => (pc' = "reading" /\ connected' /\ connects' = connects
              /\ deadline' = 0 /\ outcome' = "running")]_vars

\* a sample is being delivered after an earlier callback raised
C7_Witness ==
    /\ cbFailed
    /\ pc = "callback"
    /\ pending = 1
    /\ Len(delivered) = 2

\* the line yields a sample
IsValidLine(l) == ~decode_raises(l) /\ LineSample(l, 0) # <<>>

ValidLines == SelectSeq(readLog, IsValidLine)

(* C8: delivery is serialized and in stream order: at most one on_sample  *)
(* call is in progress, no line is read while one is, and the samples     *)
(* passed to the callback are those of the valid lines, in the order the  *)
(* lines were read.                                                        *)
C8_SerializedInOrder ==
    /\ pending <= 1
    /\ pc = "callback" => pending = 1
    /\ pc \in {"reading", "connecting"} \cup WaitPcs => pending = 0
    /\ Len(delivered) = Len(ValidLines)
    /\ \A i \in DOMAIN delivered :
          \E t \in 0..MaxTime : LineSample(ValidLines[i], t) = <<delivered[i]>>

\* two different samples delivered, the second one in progress
C8_Witness ==
    /\ Len(delivered) = 2
    /\ delivered[1] # delivered[2]
    /\ Len(readLog) = 2
    /\ pending = 1

\* the line is a JSON object whose three required fields are JSON numbers
AllNumeric(l) ==
    /\ l.k = "json"
    /\ l.data.obj
    /\ IsJsonNumber(l.data.co2_ppm)
    /\ IsJsonNumber(l.data.temperature_c)
    /\ IsJsonNumber(l.data.humidity_pct)

FiniteSample(s) ==
    /\ s.co2_ppm.k = "fin"
    /\ s.temperature_c.k = "fin"
    /\ s.humidity_pct.k = "fin"

(* C9: only complete samples are delivered and stored: a record with a    *)
(* required field absent or not a number yields no sample, so the         *)
(* callback is called for no such record and every stored sample has      *)
(* three finite fields.                                                    *)
C9_OnlyCompleteSamples ==
    /\ Len(delivered) <= Cardinality({i \in DOMAIN readLog :
                                        AllNumeric(readLog[i])})
    /\ \A i \in DOMAIN delivered : FiniteSample(delivered[i])
    /\ \A i \in DOMAIN samples : FiniteSample(samples[i])

---------------------------------------------------------------------------
(* Claims about _parse_sample, checked under ParseSpec.                    *)

ParsedData == readLog[1].data

\* the float is the number on the line
SameNumber(f, v) == f.k = "fin" /\ v.k = "num" /\ f.n = v.n

\* exactly one sample, with the numbers of the line, and with the current
\* time when the line has no timestamp string
RoundTrip(d) ==
    /\ Len(delivered) = 1
    /\ SameNumber(delivered[1].co2_ppm, d.co2_ppm)
    /\ SameNumber(delivered[1].temperature_c, d.temperature_c)
    /\ SameNumber(delivered[1].humidity_pct, d.humidity_pct)
    /\ d.timestamp.k # "str" => delivered[1].timestamp = utcnow(now)

\* an object with three JSON numbers and a timestamp that is absent, not a
\* string, or an ISO-8601 string
WellFormed(d) ==
    /\ d.obj
    /\ IsJsonNumber(d.co2_ppm)
    /\ IsJsonNumber(d.temperature_c)
    /\ IsJsonNumber(d.humidity_pct)
    /\ d.timestamp.k = "str" => d.timestamp.body \in {"ext", "ordinal"}

\* the same with every number within the range of a double and the
\* timestamp string in a form datetime.fromisoformat accepts
WellFormedInRange(d) ==
    /\ WellFormed(d)
    /\ d.co2_ppm.k = "num"
    /\ d.temperature_c.k = "num"
    /\ d.humidity_pct.k = "num"
    /\ d.timestamp.k = "str" => d.timestamp.body = "ext"

---------------------------------------------------------------------------
(* The store and its queries on their own: samples arrive through the      *)
(* callback, time passes, and get_sensor_state (or any other caller)       *)
(* queries the store.  result is [op, arg, raised, value]: the query made, *)
(* its argument, whether it raised and, if it did not, what it returned.   *)

\* at most MaxUpdates samples arrive
MaxUpdates == 4

\* the samples that arrive: readings at 0, 300 and 600 seconds, one at 600
\* seconds spelt with the offset +01:00, one with a naive timestamp (the
\* line carried no offset) and one with values that are not finite
StoreSamples ==
    { Sample(DateTime(TRUE, 0, 0), Fin(800), Fin(20), Fin(50)),
      Sample(DateTime(TRUE, 300, 0), Fin(900), Fin(25), Fin(30)),
      Sample(DateTime(TRUE, 600, 0), Fin(780), Fin(32), Fin(20)),
      Sample(DateTime(TRUE, 4200, 1), Fin(500), Fin(20), Fin(50)),
      Sample(DateTime(FALSE, 600, 0), Fin(800), Fin(20), Fin(50)),
      Sample(DateTime(TRUE, 300, 0), NaN, Inf, Fin(50)) }

\* the readings of the clock at which something happens
TimePoints == {0, 600, 601, 29400}

\* the `since` of the windows summarize takes: 10 minutes and 8 hours
Windows == {600, 28800}

\* the values of `units` get_sensor_state passes on
Units == {"metric", "imperial", "kelvin"}

Answer(op, arg, raised, value) ==
    [op |-> op, arg |-> arg, raised |-> raised, value |-> value]

StoreInit ==
    /\ pc = "store"
    /\ now = 0
    /\ stop_event = FALSE
    /\ cancelled = FALSE
    /\ outcome = "running"
    /\ deadline = 0
    /\ connected = FALSE
    /\ connects = 0
    /\ gap = NoGap
    /\ readLog = <<>>
    /\ delivered = <<>>
    /\ pending = 0
    /\ cbFailed = FALSE
    /\ samples = <<>>
    /\ result = NoResult

\* handle_metrics_sample(sample), bot.py lines 134-135
StoreUpdate ==
    /\ Len(delivered) < MaxUpdates
    /\ \E s \in StoreSamples :
          /\ handle_metrics_sample(s)
          /\ delivered' = Append(delivered, s)
    /\ result' = NoResult
    /\ UNCHANGED <<pc, stop_event, cancelled, outcome, now, deadline,
                   connected, connects, gap, readLog, pending, cbFailed>>

\* time passes
StoreTick ==
    /\ \E t \in TimePoints : t > now /\ now' = t
    /\ result' = NoResult
    /\ UNCHANGED <<pc, stop_event, cancelled, outcome, deadline, connected,
                   connects, gap, readLog, delivered, pending, cbFailed,
                   samples>>

\* store.latest()
QueryLatest ==
    /\ result' = Answer("latest", "", FALSE, latest(samples))
    /\ UNCHANGED <<pc, stop_event, cancelled, outcome, now, deadline,
                   connected, connects, gap, readLog, delivered, pending,
                   cbFailed, samples>>

\* mutant of QueryWindow: the store is cut down to the window returned
QueryWindowTrims ==
    /\ \E since \in Windows :
          /\ result' = Answer("window", since, window_raises(samples),
                              IF window_raises(samples) THEN <<>>
                              ELSE window(samples, since, now))
          /\ samples' = IF window_raises(samples) THEN samples
                        ELSE window(samples, since, now)
    /\ UNCHANGED <<pc, stop_event, cancelled, outcome, now, deadline,
                   connected, connects, gap, readLog, delivered, pending,
                   cbFailed>>

\* store.window(since)
QueryWindow ==
    /\ \E since \in Windows :
          result' = Answer("window", since, window_raises(samples),
                           IF window_raises(samples) THEN <<>>
                           ELSE window(samples, since, now))
    /\ UNCHANGED <<pc, stop_event, cancelled, outcome, now, deadline,
                   connected, connects, gap, readLog, delivered, pending,
                   cbFailed, samples>>

\* store.summarize()
QuerySummarize ==
    /\ result' = Answer("summarize", "", summarize_raises(samples, now),
                        IF summarize_raises(samples, now) THEN <<>>
                        ELSE summarize(samples, now))
    /\ UNCHANGED <<pc, stop_event, cancelled, outcome, now, deadline,
                   connected, connects, gap, readLog, delivered, pending,
                   cbFailed, samples>>

\* get_sensor_state: store.to_result_dict(units=units), bot.py lines 167-168
QueryToResultDict ==
    /\ \E units \in Units :
          result' = Answer("to_result_dict", units,
                           summarize_raises(samples, now),
                           IF summarize_raises(samples, now) THEN <<>>
                           ELSE to_result_dict(samples, now, units))
    /\ UNCHANGED <<pc, stop_event, cancelled, outcome, now, deadline,
                   connected, connects, gap, readLog, delivered, pending,
                   cbFailed, samples>>

StoreNext ==
    \/ StoreUpdate
    \/ StoreTick
    \/ QueryLatest
    \/ QueryWindow
    \/ QuerySummarize
    \/ QueryToResultDict

StoreSpec == StoreInit /\ [][StoreNext]_vars

---------------------------------------------------------------------------
(* Claims about the store, checked under StoreSpec.                        *)

\* the last n elements of the sequence q
LastN(q, n) == SubSeq(q, Len(q) - n + 1, Len(q))

Min(a, b) == IF a < b THEN a ELSE b

\* C11: after n updates the store holds at most maxlen samples, and they
\* are exactly the last min(n, maxlen) samples passed to update, in arrival
\* order.
C11_CapacityKeepsLatest ==
    /\ Len(samples) <= maxlen
    /\ samples = LastN(delivered, Min(Len(delivered), maxlen))

\* more than maxlen samples have arrived, the last one differing from the
\* one evicted
C11_Witness ==
    /\ Len(delivered) > maxlen
    /\ Len(samples) = maxlen
    /\ delivered[1] # delivered[Len(delivered)]

\* datetime a >= datetime b, where the two can be compared: both aware, by
\* their instants, or both naive, by their wall-clock readings
NotBefore(a, b) ==
    /\ a.aware = b.aware
    /\ IF a.aware THEN instant(a) >= instant(b) ELSE a.wall >= b.wall

\* C12: in every reachable state of the client feeding the store, each
\* stored sample's timestamp is greater than or equal to the timestamp of
\* the sample stored before it.
C12_TimeAscending ==
    \A i \in 2..Len(samples) :
        NotBefore(samples[i].timestamp, samples[i - 1].timestamp)

\* every stored timestamp is a UTC instant, as the Sample of the data model
\* has it: none is naive
StoredInstants == \A i \in DOMAIN samples : samples[i].timestamp.aware

\* the positions of the stored samples that are not older than d
Recent(d) ==
    {i \in DOMAIN samples : instant(samples[i].timestamp) >= now - d}

\* the k-th smallest element of the set of numbers S
Nth(S, k) == CHOOSE i \in S : Cardinality({j \in S : j <= i}) = k

\* C13: window(d) of an empty store returns the empty list; of a non-empty
\* store (of UTC instants) it returns the stored samples whose timestamp is
\* >= now - d, all of them, no others, in the order they are stored in.
C13_WindowIsTheRecentSamples ==
    (result.op = "window" /\ StoredInstants) =>
        /\ ~result.raised
        /\ samples = <<>> => result.value = <<>>
        /\ Len(result.value) = Cardinality(Recent(result.arg))
        /\ \A k \in 1..Len(result.value) :
              result.value[k] = samples[Nth(Recent(result.arg), k)]

\* a window that keeps a sample exactly d old, and one later sample, and
\* leaves an older one out
C13_Witness ==
    /\ result.op = "window"
    /\ ~result.raised
    /\ Len(result.value) = 2
    /\ Len(samples) = 3
    /\ instant(result.value[1].timestamp) = now - result.arg
    /\ result.value[1] = samples[2]

\* C14: summarize() of an empty store returns, and its summary has latest,
\* seconds_since_update, the three trends, the VPD and
\* co2_relative_to_ambient_low absent, the three statuses "unknown" and
\* stress_risk false.
C14_EmptyStoreSummary ==
    (result.op = "summarize" /\ samples = <<>>) =>
        /\ ~result.raised
        /\ result.value.latest = <<>>
        /\ result.value.seconds_since_update = <<>>
        /\ result.value.co2_trend_ppm_per_min = <<>>
        /\ result.value.humidity_trend_pct_per_min = <<>>
        /\ result.value.temperature_trend_c_per_min = <<>>
        /\ result.value.vpd_kpa = <<>>
        /\ result.value.temperature_status = "unknown"
        /\ result.value.humidity_status = "unknown"
        /\ result.value.co2_status = "unknown"
        /\ result.value.stress_risk = FALSE
        /\ result.value.co2_relative_to_ambient_low = <<>>

\* summarize has been called on the empty store, some time after its
\* construction
C14_Witness ==
    /\ result.op = "summarize"
    /\ samples = <<>>
    /\ now > 0

\* the rendered number r is the float f, and is f degrees Celsius in
\* degrees Fahrenheit
SameValue(r, f) == r.k = f.k /\ (f.k = "fin" => r.num = f.n * r.den)
InFahrenheit(r, f) ==
    r.k = f.k /\ (f.k = "fin" => 5 * r.num = (9 * f.n + 160) * r.den)

\* C15: to_result_dict of an empty store returns the unavailable shape and
\* does not raise; whenever it returns, available is true exactly when the
\* store holds a sample, and the latest values it renders are then those of
\* the sample appended last.
C15_AvailableIffSample ==
    result.op = "to_result_dict" =>
        /\ samples = <<>> =>
              /\ ~result.raised
              /\ result.value = [available |-> FALSE,
                                 message |-> "No sensor data available yet."]
        /\ (~result.raised /\ samples # <<>>) =>
              LET last == delivered[Len(delivered)]
                  shown == result.value.latest
              IN /\ result.value.available
                 /\ shown.timestamp = last.timestamp
                 /\ SameValue(shown.co2_ppm, last.co2_ppm)
                 /\ SameValue(shown.humidity_pct, last.humidity_pct)
                 /\ IF result.arg = "imperial"
                    THEN InFahrenheit(shown.temperature_f, last.temperature_c)
                    ELSE SameValue(shown.temperature_c, last.temperature_c)
                 /\ shown.seconds_since_update = now - instant(last.timestamp)

\* the dict is rendered after more samples have arrived than the store
\* holds, the last differing from the oldest one stored
C15_Witness ==
    /\ result.op = "to_result_dict"
    /\ ~result.raised
    /\ Len(delivered) > maxlen
    /\ samples[1] # delivered[Len(delivered)]
    /\ result.value.available

---------------------------------------------------------------------------
(* summarize and to_result_dict as functions of the latest sample: the     *)
(* store is empty or holds one sample, drawn from the values on both       *)
(* sides of every threshold, values that are not finite, and a timestamp   *)
(* that is the current UTC time or naive.                                  *)

Temperatures ==
    {Fin(n) : n \in {-240, 17, 18, 28, 29, 30, 31, 32}} \cup {Inf, NaN}

Humidities ==
    {Fin(n) : n \in {20, 24, 25, 34, 35, 80, 81}} \cup {Inf, NaN}

Co2s ==
    {Fin(n) : n \in {449, 450, 549, 550, 1200, 1201, 1500, 1501, 1600}}
        \cup {Inf, NaN}

LatestSamples ==
    {Sample(ts, c, t, h) :
        ts \in {utcnow(600), DateTime(FALSE, 600, 0)},
        c \in Co2s, t \in Temperatures, h \in Humidities}

SummaryInit ==
    /\ pc = "store"
    /\ now = 600
    /\ stop_event = FALSE
    /\ cancelled = FALSE
    /\ outcome = "running"
    /\ deadline = 0
    /\ connected = FALSE
    /\ connects = 0
    /\ gap = NoGap
    /\ readLog = <<>>
    /\ samples \in {<<>>} \cup {<<s>> : s \in LatestSamples}
    /\ delivered = samples
    /\ pending = 0
    /\ cbFailed = FALSE
    /\ result = NoResult

SummaryNext ==
    \/ QuerySummarize
    \/ QueryToResultDict

SummarySpec == SummaryInit /\ [][SummaryNext]_vars

\* C16: for every latest sample (t, h, c) that summarize returns a summary
\* of, temperature_status is hot if t > 30, comfy if 18 <= t <= 28, else
\* cool; humidity_status is very_dry if h < 25, dry if h < 35, humid if
\* h > 80, else ideal; co2_status is very_stale if c > 1500, stale if
\* c > 1200, fresh if c < 450, else normal; stress_risk is h < 35 and
\* t >= 28.  t = 32, h = 20, c = 1600 gives hot, very_dry, very_stale and
\* stress_risk true.
C16_ThresholdTable ==
    (result.op = "summarize" /\ ~result.raised /\ samples # <<>>) =>
        LET t == samples[Len(samples)].temperature_c
            h == samples[Len(samples)].humidity_pct
            c == samples[Len(samples)].co2_ppm
            s == result.value
        IN /\ s.temperature_status = "hot" <=> gt(t, 30)
           /\ s.temperature_status = "comfy" <=> (ge(t, 18) /\ le(t, 28))
           /\ s.temperature_status = "cool" <=>
                  ~(gt(t, 30) \/ (ge(t, 18) /\ le(t, 28)))
           /\ s.humidity_status = "very_dry" <=> lt(h, 25)
           /\ s.humidity_status = "dry" <=> (~lt(h, 25) /\ lt(h, 35))
           /\ s.humidity_status = "humid" <=> (~lt(h, 35) /\ gt(h, 80))
           /\ s.humidity_status = "ideal" <=> ~(lt(h, 35) \/ gt(h, 80))
           /\ s.co2_status = "very_stale" <=> gt(c, 1500)
           /\ s.co2_status = "stale" <=> (~gt(c, 1500) /\ gt(c, 1200))
           /\ s.co2_status = "fresh" <=> (~gt(c, 1200) /\ lt(c, 450))
           /\ s.co2_status = "normal" <=> ~(gt(c, 1200) \/ lt(c, 450))
           /\ s.stress_risk <=> (lt(h, 35) /\ ge(t, 28))
           /\ (t = Fin(32) /\ h = Fin(20) /\ c = Fin(1600)) =>
                  /\ s.temperature_status = "hot"
                  /\ s.humidity_status = "very_dry"
                  /\ s.co2_status = "very_stale"
                  /\ s.stress_risk = TRUE

\* the summary of the sample t = 32, h = 20, c = 1600
C16_Witness ==
    /\ result.op = "summarize"
    /\ ~result.raised
    /\ samples # <<>>
    /\ samples[1].temperature_c = Fin(32)
    /\ samples[1].humidity_pct = Fin(20)
    /\ samples[1].co2_ppm = Fin(1600)
    /\ result.value.stress_risk

\* the store holds two samples whose timestamps (UTC instants) are 10
\* minutes apart, with CO2 800 then 780
TenMinutesApart ==
    /\ Len(samples) = 2
    /\ StoredInstants
    /\ instant(samples[2].timestamp) - instant(samples[1].timestamp) = 600
    /\ samples[1].co2_ppm = Fin(800)
    /\ samples[2].co2_ppm = Fin(780)

\* the Optional trend x is the number n
TrendIs(x, n) == x # <<>> /\ x[1].k = "fin" /\ x[1].num = n * x[1].den

\* C17 as stated: for a store holding two samples 10 minutes apart with CO2
\* 800 then 780, summarize reports co2_trend_ppm_per_min = -2.0 whatever
\* the time it is called at.
C17_TrendWheneverCalled ==
    (result.op = "summarize" /\ TenMinutesApart) =>
        /\ ~result.raised
        /\ TrendIs(result.value.co2_trend_ppm_per_min, -2)

\* C17 amended: for such a store summarize reports -2.0 when it is called
\* no later than the timestamp of the later sample (the earlier one is then
\* at most 10 minutes old), and reports no CO2 trend when called later.
C17_TrendWhileBothInWindow ==
    (result.op = "summarize" /\ TenMinutesApart) =>
        /\ ~result.raised
        /\ IF now <= instant(samples[2].timestamp)
           THEN TrendIs(result.value.co2_trend_ppm_per_min, -2)
           ELSE result.value.co2_trend_ppm_per_min = <<>>

\* summarize is called at the very time of the later sample
C17_Witness ==
    /\ result.op = "summarize"
    /\ TenMinutesApart
    /\ now = instant(samples[2].timestamp)
    /\ TrendIs(result.value.co2_trend_ppm_per_min, -2)

\* the temperature fields of the "latest" dict rendered
TemperatureKeys ==
    DOMAIN result.value.latest \cap {"temperature_c", "temperature_f"}

\* C18: for a non-empty store to_result_dict renders exactly one temperature
\* field: temperature_f with the value C * 9 / 5 + 32 when units is
\* "imperial", temperature_c with the unconverted value for "metric" and
\* for every other units value; no value of units makes it raise (it raises
\* only where summarize does: a naive timestamp, or a temperature for which
\* the VPD overflows).
C18_OneTemperatureField ==
    (result.op = "to_result_dict" /\ samples # <<>>) =>
        LET last == samples[Len(samples)]
        IN /\ result.raised =>
                  ~StoredInstants \/ _calc_vpd_kpa_raises(last.temperature_c)
           /\ ~result.raised =>
                  IF result.arg = "imperial"
                  THEN /\ TemperatureKeys = {"temperature_f"}
                       /\ InFahrenheit(result.value.latest.temperature_f,
                                       last.temperature_c)
                  ELSE /\ TemperatureKeys = {"temperature_c"}
                       /\ SameValue(result.value.latest.temperature_c,
                                    last.temperature_c)

\* a units value that is neither "metric" nor "imperial" has been rendered
C18_Witness ==
    /\ result.op = "to_result_dict"
    /\ result.arg \notin {"metric", "imperial"}
    /\ ~result.raised
    /\ samples # <<>>
    /\ samples[1].temperature_c = Fin(32)
    /\ "temperature_c" \in DOMAIN result.value.latest

\* the first and the last stored sample that the 10-minute window holds,
\* and the seconds elapsed between the two
FirstInWindow == samples[Nth(Recent(600), 1)]
LastInWindow == samples[Nth(Recent(600), Cardinality(Recent(600)))]
Elapsed == instant(LastInWindow.timestamp) - instant(FirstInWindow.timestamp)

\* the Optional trend x is (last - first) / (Elapsed / 60) for the field
SlopeOf(x, field) ==
    LET dy == fsub(LastInWindow[field], FirstInWindow[field])
    IN /\ x # <<>>
       /\ x[1].k = dy.k
       /\ dy.k = "fin" => x[1].num * Elapsed = dy.n * 60 * x[1].den

\* C19: in every summary summarize returns, each trend is absent exactly
\* when the 10-minute window holds fewer than 2 samples or no time has
\* passed from its first to its last sample, and is otherwise the value of
\* the last sample of the window less the value of the first, divided by
\* the minutes between the two: the samples in between play no part.
C19_TrendFirstToLast ==
    (result.op = "summarize" /\ ~result.raised) =>
        IF Cardinality(Recent(600)) < 2 \/ Elapsed <= 0
        THEN /\ result.value.co2_trend_ppm_per_min = <<>>
             /\ result.value.humidity_trend_pct_per_min = <<>>
             /\ result.value.temperature_trend_c_per_min = <<>>
        ELSE /\ SlopeOf(result.value.co2_trend_ppm_per_min, "co2_ppm")
             /\ SlopeOf(result.value.humidity_trend_pct_per_min,
                        "humidity_pct")
             /\ SlopeOf(result.value.temperature_trend_c_per_min,
                        "temperature_c")

\* a trend over a window of three samples, the CO2 of the middle one above
\* both ends
C19_Witness ==
    /\ result.op = "summarize"
    /\ ~result.raised
    /\ Recent(600) = {1, 2, 3}
    /\ gt(samples[2].co2_ppm, samples[1].co2_ppm.n)
    /\ gt(samples[2].co2_ppm, samples[3].co2_ppm.n)
    /\ TrendIs(result.value.co2_trend_ppm_per_min, -2)

\* C20: in every summary summarize returns, the current-feel phrase is the
\* stress phrase when stress_risk is true; otherwise the warm phrase when
\* temperature_status is hot; otherwise the dry phrase when humidity_status
\* is dry or very_dry; otherwise, and for an empty store, the comfortable
\* phrase: one of four different phrases in every case.
C20_CurrentFeelPriority ==
    (result.op = "summarize" /\ ~result.raised) =>
        LET s == result.value
            hot == s.temperature_status = "hot"
            dry == s.humidity_status \in {"dry", "very_dry"}
        IN /\ s.stress_risk => s.current_feel_text = FeelStressed
           /\ (~s.stress_risk /\ hot) => s.current_feel_text = FeelWarm
           /\ (~s.stress_risk /\ ~hot /\ dry) =>
                  s.current_feel_text = FeelDry
           /\ (~s.stress_risk /\ ~hot /\ ~dry) =>
                  s.current_feel_text = FeelComfortable
           /\ samples = <<>> => s.current_feel_text = FeelComfortable
           /\ Cardinality({FeelStressed, FeelWarm, FeelDry,
                           FeelComfortable}) = 4

\* a sample that is hot and very dry, so that the stress phrase, the warm
\* phrase and the dry phrase all apply, has been summarised
C20_Witness ==
    /\ result.op = "summarize"
    /\ ~result.raised
    /\ result.value.stress_risk
    /\ result.value.temperature_status = "hot"
    /\ result.value.humidity_status = "very_dry"
    /\ result.value.current_feel_text = FeelStressed

\* C21: in every summary summarize returns, the productivity phrase is the
\* low-CO2 phrase when the latest CO2 is below the ambient baseline less
\* 50; otherwise the dropping-CO2 phrase when the CO2 trend is defined and
\* below -2.0 ppm/min; otherwise (no trend, a trend that is not below -2.0,
\* an empty store) the default encouragement phrase.
C21_ProductivityPriority ==
    (result.op = "summarize" /\ ~result.raised) =>
        LET s == result.value
            low == /\ samples # <<>>
                   /\ lt(samples[Len(samples)].co2_ppm,
                         ambient_co2_baseline_ppm - 50)
            dropping == /\ s.co2_trend_ppm_per_min # <<>>
                        /\ qlt(s.co2_trend_ppm_per_min[1], -2)
        IN /\ low => s.productivity_assessment_text = LowCo2
           /\ (~low /\ dropping) =>
                  s.productivity_assessment_text = DroppingCo2
           /\ (~low /\ ~dropping) =>
                  s.productivity_assessment_text = DoingMyBest
           /\ samples = <<>> => s.productivity_assessment_text = DoingMyBest
           /\ Cardinality({LowCo2, DroppingCo2, DoingMyBest}) = 3

\* the latest CO2 is low and the CO2 has been dropping faster than 2 ppm a
\* minute: both phrases apply and the low-CO2 one is given
C21_Witness ==
    /\ result.op = "summarize"
    /\ ~result.raised
    /\ samples # <<>>
    /\ lt(samples[Len(samples)].co2_ppm, ambient_co2_baseline_ppm - 50)
    /\ result.value.co2_trend_ppm_per_min # <<>>
    /\ qlt(result.value.co2_trend_ppm_per_min[1], -2)
    /\ result.value.productivity_assessment_text = LowCo2

\* the store that the updates alone make of the samples in seq
RECURSIVE Replay(_)
Replay(seq) ==
    IF seq = <<>> THEN <<>>
    ELSE update(Replay(SubSeq(seq, 1, Len(seq) - 1)), seq[Len(seq)])

\* C22: a step in which latest, window, summarize or to_result_dict returns
\* leaves the stored samples and their order as they were, so that after
\* any interleaving of queries and updates the store is what the updates
\* alone make it; and a summary taken right after another, with no update
\* and no time passing in between, equals it.
C22_QueriesReadOnly ==
    /\ [](samples = Replay(delivered))
    /\ [][ /\ result'.op # "none" => samples' = samples
           /\ (result.op = "summarize" /\ result'.op = "summarize") =>
                  result' = result ]_vars

\* a window has returned fewer samples than the store, which has seen more
\* updates than it holds, still holds
C22_Witness ==
    /\ result.op = "window"
    /\ ~result.raised
    /\ Len(delivered) > maxlen
    /\ Len(result.value) < Len(samples)
    /\ Len(samples) = maxlen

\* C23: for every store state reached by feeding update the samples the
\* client delivers, samples stamped without a UTC offset or in the future
\* included, window, summarize and to_result_dict return: none raises.
C23_QueriesComplete == result.op # "none" => ~result.raised

---------------------------------------------------------------------------
(* Claims about run_forever after stop(), checked under Spec.              *)

\* C24: once stop() has been called (the event stays set), every step
\* leaves the number of connections opened as it is and starts no backoff
\* wait; a sample is delivered only by the readline that was pending when
\* stop was called, for readline is not awaited again after stop (the
\* position "reading" is never entered) and the step that delivers leaves
\* it: at most one further sample.  If stop was called before run_forever
\* started, no connection is opened and no sample is delivered.
C24_NothingNewAfterStop ==
    [][ stop_event =>
            /\ connects' = connects
            /\ pc' \in WaitPcs => (pc \in WaitPcs /\ deadline' = deadline)
            /\ pc' = "reading" => pc = "reading"
            /\ delivered' # delivered =>
                   /\ pc = "reading"
                   /\ pc' # "reading"
                   /\ Len(delivered') = Len(delivered) + 1
            /\ pc = "idle" =>
                   /\ pc' \in {"idle", "done"}
                   /\ connects' = 0
                   /\ delivered' = <<>> ]_vars

\* stop was called while a connection was open; run_forever has returned
\* having read one line, delivered its sample and opened nothing more
C24_Witness ==
    /\ stop_event
    /\ ~cancelled
    /\ pc = "done"
    /\ outcome = "returned"
    /\ connects = 1
    /\ Len(readLog) = 1
    /\ Len(delivered) = 1
    /\ pending = 0

====
